---- MODULE Spec2Model ----
(***************************************************************************)
(* A model of the streaming text-to-speech WebSocket service:              *)
(*   src/core/websocket_server.py  TTSWebSocketServer                      *)
(*   src/core/tts.py               SpeechSynthesizer                       *)
(*   src/app.py                    TTSService                              *)
(*                                                                         *)
(* One asyncio task per connection (handle_connection), one worker thread  *)
(* per synthesis job (run_in_executor), one threading.Lock around the      *)
(* engine.  An action of the model is the code a task runs between two     *)
(* suspension points (await), or the code a worker thread runs between     *)
(* taking and releasing the lock.  Timestamps are left out of messages.    *)
(***************************************************************************)
EXTENDS Integers, Sequences, FiniteSets, TLC

\* The connections of the model: two, so that sessions can run concurrently.
Conn == {"c1", "c2"}

\* The largest synthesized file is MaxBlocks full blocks of CHUNK_SIZE bytes.
MaxBlocks == 2

CHUNK_SIZE == 4096
MAX_TEXT_LEN == 10000
RATE == 150
VOICE_INDEX == 0

VARIABLES
    platform,            \* platform.system(): "Windows" or "Unix"
    is_running,          \* TTSService.is_running
    proc,                \* "running" | "exited": the process (event loop)
    stop_calls,          \* number of calls of TTSWebSocketServer.stop_server
    active_connections,  \* TTSWebSocketServer.active_connections (its keys)
    lock,                \* SpeechSynthesizer.lock: its holder, or "free"
    job,                 \* per connection, the worker thread running synthesize()
    waiters,             \* the jobs not yet inside the lock, oldest first
    engine_result,       \* per connection, how the engine run of its job ended
    files,               \* the temporary directory: name -> file
    gen,                 \* per connection, where text_to_speech_stream is suspended
    pc,                  \* per connection, where handle_connection is suspended
    alive,               \* per connection, whether the transport is still open
    req,                 \* per connection, the inbound payload being handled
    chunk_index,         \* locals of synthesize_and_stream
    total_size,
    audio_chunk,         \* size of the last block the generator yielded
    offset,              \* read position of the generator in its file
    sent,                \* per connection, messages written for the current payload
    failed               \* per connection, messages whose write raised

vars == <<platform, is_running, proc, stop_calls, active_connections, lock, job,
          waiters, engine_result, files, gen, pc, alive, req, chunk_index, total_size,
          audio_chunk, offset, sent, failed>>

server_vars == <<platform, is_running, proc, stop_calls>>
engine_vars == <<lock, job, waiters, engine_result, files, gen>>
stream_vars == <<chunk_index, total_size, audio_chunk, offset>>

----------------------------------------------------------------------------
(* Texts.  A text is its leading whitespace, its stripped core and its     *)
(* trailing whitespace, each by length: len() and strip() are computed     *)
(* from these as Python computes them.                                     *)

Text(l, b, t) == [lead |-> l, body |-> b, trail |-> t]

TextLen(x) == x.lead + x.body + x.trail

Strip(x) == Text(0, x.body, 0)

\* Blank texts, texts within the limit, texts over it.
BlankTexts == { Text(0, 0, 0), Text(1, 0, 1), Text(MAX_TEXT_LEN, 0, 1) }

ValidTexts == { Text(0, 1, 0), Text(1, MAX_TEXT_LEN - 1, 0) }

LongTexts == { Text(0, MAX_TEXT_LEN + 1, 0), Text(1, MAX_TEXT_LEN, 0) }

Texts == BlankTexts \cup ValidTexts \cup LongTexts

RequestIds == {"X"}

\* JSON objects a client may send: a dict from present keys to values.
Objects ==
    {[type |-> t, request_id |-> r] : t \in {"ping", "get_voices", "bogus"}, r \in RequestIds}
    \cup {[type |-> t] : t \in {"ping", "bogus"}}
    \cup {[request_id |-> r] : r \in RequestIds}
    \cup {[type |-> "synthesize", request_id |-> r, text |-> x] : r \in RequestIds, x \in Texts}
    \cup {[type |-> "synthesize", request_id |-> r] : r \in RequestIds}

\* Inbound frames: text that is no JSON, bytes that are no UTF-8, JSON that is
\* no object (a list, a number), and JSON objects.
Payloads ==
    {[kind |-> k] : k \in {"malformed", "bad_utf8", "non_object"}}
    \cup {[kind |-> "object", data |-> d] : d \in Objects}

NoPayload == [kind |-> "none"]

\* dict.get(key, default)
Get(d, key, default) == IF key \in DOMAIN d THEN d[key] ELSE default

----------------------------------------------------------------------------
(* Outbound messages *)

get_voice_info == [rate |-> RATE, voice_index |-> VOICE_INDEX]

WelcomeMsg(s) ==
    [type |-> "welcome", connection_id |-> s, voice_info |-> get_voice_info]

VoiceInfoMsg(rid) ==
    [type |-> "voice_info", request_id |-> rid, data |-> get_voice_info]

PongMsgNoEcho(rid) == [type |-> "pong", request_id |-> "uuid4"]

PongMsg(rid) == [type |-> "pong", request_id |-> rid]

ErrorMsg(message, rid) ==
    [type |-> "error", request_id |-> rid, message |-> message]

UnknownTypeMsgNoEcho(message_type, rid) ==
    [type |-> "error", request_id |-> "error", message |-> "unknown message type",
     named |-> message_type]

UnknownTypeMsg(message_type, rid) ==
    [type |-> "error", request_id |-> rid, message |-> "unknown message type",
     named |-> message_type]

TooLongMsg(rid) ==
    [type |-> "error", request_id |-> rid, message |-> "text length over limit",
     limit |-> 10000]

StartMsg(rid, text) ==
    [type |-> "synthesis_start", request_id |-> rid, text_length |-> TextLen(text)]

ChunkMsg(rid, idx, data, total) ==
    [type |-> "audio_chunk", request_id |-> rid, chunk_index |-> idx,
     audio_data |-> data, chunk_size |-> data.len, total_size |-> total,
     is_final |-> FALSE]

EndMsg(rid, idx, total) ==
    [type |-> "synthesis_complete", request_id |-> rid, total_chunks |-> idx,
     total_size |-> total]

----------------------------------------------------------------------------
(* The temporary directory and the engine *)

NoFile == [exists |-> FALSE, src |-> "none", size |-> 0]

\* A file as NamedTemporaryFile(delete=False) leaves it: present and empty.
EmptyFile == [exists |-> TRUE, src |-> "none", size |-> 0]

OneTemporaryFile(s) == "c1"

\* tempfile picks a name no other file has.  A connection holds at most one
\* temporary file at a time, so the name is identified by the connection.
NamedTemporaryFile(s) == s

\* Sizes of the audio the engine may write for a text.
AudioSizes == {q * CHUNK_SIZE + r : q \in 0 .. MaxBlocks - 1, r \in {1, CHUNK_SIZE}}

\* How engine.save_to_file / runAndWait may end: the file is written, the
\* engine raises (caught and logged inside synthesize()), or the file is no
\* longer there when the generator looks for it.
EngineOutcomes == {"ok", "raised", "missing"}

Min(a, b) == IF a < b THEN a ELSE b

----------------------------------------------------------------------------
(* Validation and dispatch: _handle_message, _handle_synthesis_request *)

IsBlankNoStrip(text) == TextLen(text) = 0

\* `not text or len(text.strip()) == 0`
IsBlank(text) == TextLen(text) = 0 \/ TextLen(Strip(text)) = 0

TooLongOffByOne(text) == TextLen(text) >= MAX_TEXT_LEN

\* `len(text) > 10000`
TooLong(text) == TextLen(text) > MAX_TEXT_LEN

\* request_id = data.get('request_id', str(uuid.uuid4()))
RequestIdOf(data) == Get(data, "request_id", "uuid4")

TextOf(data) == Get(data, "text", Text(0, 0, 0))

TypeOf(data) == Get(data, "type", "")

\* What _handle_message does with a payload up to its first write:
\*   reply       one message is written from inside the try block
\*   reply_exc   one message is written from an except clause
\*   synthesize  the payload goes to synthesize_and_stream
Dispatch(m) ==
    IF m.kind = "malformed"
    THEN [kind |-> "reply_exc", msg |-> ErrorMsg("invalid JSON", "invalid")]
    ELSE IF m.kind = "bad_utf8"
    THEN [kind |-> "reply_exc", msg |-> ErrorMsg("UnicodeDecodeError", "error")]
    ELSE IF m.kind = "non_object"
    THEN [kind |-> "reply_exc", msg |-> ErrorMsg("AttributeError", "error")]
    ELSE LET data == m.data
             rid  == RequestIdOf(data)
             text == TextOf(data)
             ty   == TypeOf(data)
         IN  IF ty = "synthesize"
             THEN IF IsBlank(text)
                  THEN [kind |-> "reply", msg |-> ErrorMsg("text must not be empty", rid)]
                  ELSE IF TooLong(text)
                  THEN [kind |-> "reply", msg |-> TooLongMsg(rid)]
                  ELSE [kind |-> "synthesize", msg |-> StartMsg(rid, text)]
             ELSE IF ty = "get_voices"
             THEN [kind |-> "reply", msg |-> VoiceInfoMsg(rid)]
             ELSE IF ty = "ping"
             THEN [kind |-> "reply", msg |-> PongMsg(rid)]
             ELSE [kind |-> "reply", msg |-> UnknownTypeMsg(ty, rid)]

\* The writes attempted when the transport is closed and `msg` is written
\* ... from an except clause of _handle_message: the exception leaves it;
FailInHandler(msg) == <<msg>>
\* ... from its try block: `except Exception` tries one more error message;
FailInTry(msg) == <<msg, ErrorMsg("ConnectionClosed", "error")>>
\* ... from synthesize_and_stream: its own except clause tries an error
\* message for the request first.
FailInStream(msg, rid) ==
    <<msg, ErrorMsg("stream send failed", rid), ErrorMsg("ConnectionClosed", "error")>>

----------------------------------------------------------------------------
(* Locals of synthesize_and_stream *)

SkipsNothing(n) == FALSE

\* `if not audio_chunk: continue`
SkipsBlock(n) == n = 0

AddFullBlock(total, n) == total + CHUNK_SIZE

\* `total_size += len(audio_chunk)`
AddSize(total, n) == total + n

\* `chunk_index += 1`
NextIndex(idx) == idx + 1

CurrentRid(s) == RequestIdOf(req[s].data)

CurrentText(s) == TextOf(req[s].data)

----------------------------------------------------------------------------
Init ==
    /\ platform \in {"Windows", "Unix"}
    /\ is_running = TRUE
    /\ proc = "running"
    /\ stop_calls = 0
    /\ active_connections = {}
    /\ lock = "free"
    /\ job = [s \in Conn |-> "none"]
    /\ waiters = <<>>
    /\ engine_result = [s \in Conn |-> "none"]
    /\ files = [n \in Conn |-> NoFile]
    /\ gen = [s \in Conn |-> "none"]
    /\ pc = [s \in Conn |-> "idle"]
    /\ alive = [s \in Conn |-> TRUE]
    /\ req = [s \in Conn |-> NoPayload]
    /\ chunk_index = [s \in Conn |-> 0]
    /\ total_size = [s \in Conn |-> 0]
    /\ audio_chunk = [s \in Conn |-> -1]
    /\ offset = [s \in Conn |-> 0]
    /\ sent = [s \in Conn |-> <<>>]
    /\ failed = [s \in Conn |-> <<>>]

\* synthesize() called on the event loop itself: the loop stands still until
\* the job has left the engine.
CalledOnLoop(j) == j \in {"waiting", "in_engine"}

\* loop.run_in_executor hands the job to a worker thread, and the generator
\* awaits it: no state of the job keeps the event loop from running.
BlocksLoop(j) == FALSE

\* The event loop can run a step of a task.
LoopRuns == proc = "running" /\ \A t \in Conn : ~BlocksLoop(job[t])

\* A handler that ends without its finally clause: the entry stays.
CloseKeepsEntry(s) ==
    /\ pc' = [pc EXCEPT ![s] = "closed"]
    /\ UNCHANGED active_connections

\* A handler whose end empties the registry.
CloseDropsAll(s) ==
    /\ pc' = [pc EXCEPT ![s] = "closed"]
    /\ active_connections' = {}

\* The finally clause of handle_connection.
Close(s) ==
    /\ pc' = [pc EXCEPT ![s] = "closed"]
    /\ active_connections' = active_connections \ {s}

\* websockets.serve accepts a connection and starts handle_connection, which
\* registers it and goes on to the welcome message.
Accept(s) ==
    /\ LoopRuns
    /\ pc[s] = "idle"
    /\ active_connections' = active_connections \cup {s}
    /\ pc' = [pc EXCEPT ![s] = "welcome"]
    /\ UNCHANGED <<server_vars, engine_vars, stream_vars, alive, req, sent, failed>>

\* _send_welcome_message; a failed write ends the connection.
SendWelcome(s) ==
    /\ LoopRuns
    /\ pc[s] = "welcome"
    /\ IF alive[s]
       THEN /\ sent' = [sent EXCEPT ![s] = <<WelcomeMsg(s)>>]
            /\ pc' = [pc EXCEPT ![s] = "recv"]
            /\ UNCHANGED <<failed, active_connections>>
       ELSE /\ failed' = [failed EXCEPT ![s] = <<WelcomeMsg(s)>>]
            /\ Close(s)
            /\ UNCHANGED sent
    /\ UNCHANGED <<server_vars, engine_vars, stream_vars, alive, req>>

\* The peer closes or drops the transport.
Disconnect(s) ==
    /\ pc[s] \notin {"idle", "closed"}
    /\ alive[s]
    /\ alive' = [alive EXCEPT ![s] = FALSE]
    /\ UNCHANGED <<server_vars, engine_vars, stream_vars, active_connections,
                   pc, req, sent, failed>>

\* `async for message in websocket` ends on a closed transport: the handler
\* returns through its finally clause, and its locals are gone.
ConnectionLost(s) ==
    /\ LoopRuns
    /\ pc[s] = "recv"
    /\ ~alive[s]
    /\ Close(s)
    /\ req' = [req EXCEPT ![s] = NoPayload]
    /\ chunk_index' = [chunk_index EXCEPT ![s] = 0]
    /\ total_size' = [total_size EXCEPT ![s] = 0]
    /\ audio_chunk' = [audio_chunk EXCEPT ![s] = -1]
    /\ offset' = [offset EXCEPT ![s] = 0]
    /\ sent' = [sent EXCEPT ![s] = <<>>]
    /\ failed' = [failed EXCEPT ![s] = <<>>]
    /\ engine_result' = [engine_result EXCEPT ![s] = "none"]
    /\ UNCHANGED <<server_vars, lock, job, waiters, files, gen, alive>>

\* _handle_message up to its first suspension: decode, dispatch, validate,
\* write the reply or synthesis_start.
HandleMessage(s, m) ==
    /\ LoopRuns
    /\ pc[s] = "recv"
    /\ req' = [req EXCEPT ![s] = m]
    /\ chunk_index' = [chunk_index EXCEPT ![s] = 0]
    /\ total_size' = [total_size EXCEPT ![s] = 0]
    /\ audio_chunk' = [audio_chunk EXCEPT ![s] = -1]
    /\ offset' = [offset EXCEPT ![s] = 0]
    /\ engine_result' = [engine_result EXCEPT ![s] = "none"]
    /\ LET d == Dispatch(m) IN
       IF alive[s]
       THEN /\ sent' = [sent EXCEPT ![s] = <<d.msg>>]
            /\ failed' = [failed EXCEPT ![s] = <<>>]
            /\ pc' = [pc EXCEPT ![s] = IF d.kind = "synthesize" THEN "gen_start" ELSE "recv"]
            /\ UNCHANGED active_connections
       ELSE /\ sent' = [sent EXCEPT ![s] = <<>>]
            /\ failed' = [failed EXCEPT ![s] =
                  IF d.kind = "synthesize" THEN FailInStream(d.msg, d.msg.request_id)
                  ELSE IF d.kind = "reply" THEN FailInTry(d.msg)
                  ELSE FailInHandler(d.msg)]
            /\ Close(s)
    /\ UNCHANGED <<server_vars, lock, job, waiters, files, gen, alive>>

\* After the last block: the generator's finally clause has run, the consumer
\* writes synthesis_complete.
SendComplete(s) ==
    LET msg == EndMsg(CurrentRid(s), chunk_index[s], total_size[s]) IN
    IF alive[s]
    THEN /\ sent' = [sent EXCEPT ![s] = Append(@, msg)]
         /\ pc' = [pc EXCEPT ![s] = "recv"]
         /\ UNCHANGED <<failed, active_connections>>
    ELSE /\ failed' = [failed EXCEPT ![s] = FailInStream(msg, CurrentRid(s))]
         /\ Close(s)
         /\ UNCHANGED sent

\* text_to_speech_stream from its start to `await run_in_executor`.
GenStart(s) ==
    /\ LoopRuns
    /\ pc[s] = "gen_start"
    /\ IF IsBlank(CurrentText(s))
       THEN /\ audio_chunk' = [audio_chunk EXCEPT ![s] = 0]
            /\ SendComplete(s)
            /\ UNCHANGED <<files, job, waiters, gen>>
       ELSE /\ files' = [files EXCEPT ![NamedTemporaryFile(s)] = EmptyFile]
            /\ job' = [job EXCEPT ![s] = "waiting"]
            /\ waiters' = Append(waiters, s)
            /\ gen' = [gen EXCEPT ![s] = "await"]
            /\ pc' = [pc EXCEPT ![s] = "await_job"]
            /\ UNCHANGED <<audio_chunk, sent, failed, active_connections>>
    /\ UNCHANGED <<server_vars, lock, engine_result, chunk_index, total_size,
                   offset, alive, req>>

\* An engine section that does not take the lock.
NoLock(l) == TRUE

\* threading.Lock.acquire: it returns once the lock is not held.
acquire(l) == l = "free"

\* The jobs a released lock may admit: any thread that waits for it.
Admissible(q) == {q[i] : i \in DOMAIN q}

\* The worker thread enters `with self.lock`.
JobAcquire(s) ==
    /\ job[s] = "waiting"
    /\ s \in Admissible(waiters)
    /\ acquire(lock)
    /\ lock' = s
    /\ job' = [job EXCEPT ![s] = "in_engine"]
    /\ waiters' = SelectSeq(waiters, LAMBDA t : t # s)
    /\ UNCHANGED <<server_vars, engine_result, files, gen, stream_vars,
                   active_connections, pc, alive, req, sent, failed>>

\* save_to_file and runAndWait end, the lock is released.
JobFinish(s, outcome, size) ==
    /\ job[s] = "in_engine"
    /\ lock' = "free"
    /\ job' = [job EXCEPT ![s] = "done"]
    /\ engine_result' = [engine_result EXCEPT ![s] = outcome]
    /\ UNCHANGED waiters
    /\ files' = [files EXCEPT ![NamedTemporaryFile(s)] =
                   IF outcome = "ok" THEN [exists |-> TRUE, src |-> s, size |-> size]
                   ELSE IF outcome = "missing" THEN NoFile
                   ELSE @]
    /\ UNCHANGED <<server_vars, gen, stream_vars, active_connections, pc, alive,
                   req, sent, failed>>

\* One round of `async for audio_chunk in text_to_speech_stream(text)`: the
\* generator is resumed (after the job, or after the pacing sleep), reads a
\* block and yields it, or ends; the consumer skips or sends the block.
\* io_error: open() or read() raises, the generator yields an empty block and
\* ends when resumed.  An empty block is also what it yields when the file is
\* not there after the job.
StreamStep(s, io_error) ==
    /\ LoopRuns
    /\ \/ pc[s] = "await_job" /\ job[s] = "done"
       \/ pc[s] = "stream"
    /\ job' = [job EXCEPT ![s] = "none"]
    /\ LET name == NamedTemporaryFile(s)
           f == files[name]
           missing == pc[s] = "await_job" /\ ~f.exists
           raises == f.exists /\ io_error
           yields_empty == missing \/ raises
           n == IF f.exists /\ ~io_error THEN Min(CHUNK_SIZE, f.size - offset[s]) ELSE 0
           data == [src |-> f.src, from |-> offset[s], len |-> n]
           GeneratorEnds ==  \* the finally clause unlinks the file
               /\ files' = [files EXCEPT ![name] = NoFile]
               /\ gen' = [gen EXCEPT ![s] = "none"]
               /\ SendComplete(s)
               /\ UNCHANGED <<chunk_index, total_size>>
       IN
       IF gen[s] = "yield_empty" \/ (~yields_empty /\ n = 0)
       THEN /\ GeneratorEnds
            /\ UNCHANGED <<audio_chunk, offset>>
       ELSE /\ audio_chunk' = [audio_chunk EXCEPT ![s] = n]
            /\ offset' = [offset EXCEPT ![s] = @ + n]
            /\ IF SkipsBlock(n)
               THEN IF yields_empty
                    THEN GeneratorEnds
                    ELSE /\ gen' = [gen EXCEPT ![s] = "yield"]
                         /\ pc' = [pc EXCEPT ![s] = "stream"]
                         /\ UNCHANGED <<files, chunk_index, total_size, sent, failed,
                                        active_connections>>
               ELSE /\ chunk_index' = [chunk_index EXCEPT ![s] = NextIndex(@)]
                    /\ total_size' = [total_size EXCEPT ![s] = AddSize(@, n)]
                    /\ gen' = [gen EXCEPT ![s] = IF yields_empty THEN "yield_empty" ELSE "yield"]
                    /\ UNCHANGED files
                    /\ LET msg == ChunkMsg(CurrentRid(s), chunk_index'[s], data, total_size'[s]) IN
                       IF alive[s]
                       THEN /\ sent' = [sent EXCEPT ![s] = Append(@, msg)]
                            /\ pc' = [pc EXCEPT ![s] = "stream"]
                            /\ UNCHANGED <<failed, active_connections>>
                       ELSE /\ failed' = [failed EXCEPT ![s] = FailInStream(msg, CurrentRid(s))]
                            /\ Close(s)
                            /\ UNCHANGED sent
    /\ UNCHANGED <<server_vars, lock, waiters, engine_result, alive, req>>

\* The abandoned generator of a closed connection is finalized (aclose by the
\* event loop's asyncgen hook): its finally clause unlinks the file.
FinalizeGenerator(s) ==
    /\ LoopRuns
    /\ pc[s] = "closed"
    /\ gen[s] \in {"yield", "yield_empty"}
    /\ gen' = [gen EXCEPT ![s] = "none"]
    /\ files' = [files EXCEPT ![NamedTemporaryFile(s)] = NoFile]
    /\ UNCHANGED <<server_vars, lock, job, waiters, engine_result, stream_vars,
                   active_connections, pc, alive, req, sent, failed>>

\* A shutdown that stops the server whether or not it has been stopped before.
AlwaysRunning == TRUE

\* The test graceful_shutdown makes before it stops anything.
StillRunning == is_running

\* SIGINT or SIGTERM: TTSService.graceful_shutdown.  stop_server stops the
\* engine and nothing else.  On Windows sys.exit(0) then ends the event loop:
\* every task is cancelled (the finally clause of handle_connection empties
\* the registry), every open generator is closed (its finally clause unlinks
\* its file), and the tasks' locals are gone with the process's memory; the
\* files on disk stay, and worker threads run on to their end.
Signal ==
    /\ proc = "running"
    /\ IF StillRunning
       THEN /\ stop_calls' = stop_calls + 1
            /\ is_running' = FALSE
            /\ IF platform = "Windows"
               THEN /\ proc' = "exited"
                    /\ pc' = [s \in Conn |-> IF pc[s] = "idle" THEN "idle" ELSE "closed"]
                    /\ active_connections' = {}
                    /\ gen' = [s \in Conn |-> "none"]
                    /\ files' = [n \in Conn |->
                          IF \E s \in Conn : gen[s] # "none" /\ NamedTemporaryFile(s) = n
                          THEN NoFile ELSE files[n]]
                    /\ alive' = [s \in Conn |-> pc[s] = "idle"]
                    /\ req' = [s \in Conn |-> NoPayload]
                    /\ chunk_index' = [s \in Conn |-> 0]
                    /\ total_size' = [s \in Conn |-> 0]
                    /\ audio_chunk' = [s \in Conn |-> -1]
                    /\ offset' = [s \in Conn |-> 0]
                    /\ sent' = [s \in Conn |-> <<>>]
                    /\ failed' = [s \in Conn |-> <<>>]
                    /\ engine_result' = [s \in Conn |-> "none"]
               ELSE UNCHANGED <<proc, pc, active_connections, gen, files, alive, req,
                                stream_vars, sent, failed, engine_result>>
       ELSE UNCHANGED <<stop_calls, is_running, proc, pc, active_connections, gen,
                        files, alive, req, stream_vars, sent, failed, engine_result>>
    /\ UNCHANGED <<platform, lock, job, waiters>>

Next ==
    \/ \E s \in Conn : Accept(s)
    \/ \E s \in Conn : SendWelcome(s)
    \/ \E s \in Conn : Disconnect(s)
    \/ \E s \in Conn : ConnectionLost(s)
    \/ \E s \in Conn : \E m \in Payloads : HandleMessage(s, m)
    \/ \E s \in Conn : GenStart(s)
    \/ \E s \in Conn : JobAcquire(s)
    \/ \E s \in Conn : \E o \in EngineOutcomes : \E z \in AudioSizes : JobFinish(s, o, z)
    \/ \E s \in Conn : \E e \in BOOLEAN : StreamStep(s, e)
    \/ \E s \in Conn : FinalizeGenerator(s)
    \/ Signal

Spec == Init /\ [][Next]_vars

\* The same server when every message its clients send is a valid synthesize
\* request.
SynthesizePayloads ==
    {[kind |-> "object",
      data |-> [type |-> "synthesize", request_id |-> r, text |-> Text(0, 1, 0)]] :
        r \in RequestIds}

StreamNext ==
    \/ \E s \in Conn : Accept(s)
    \/ \E s \in Conn : SendWelcome(s)
    \/ \E s \in Conn : Disconnect(s)
    \/ \E s \in Conn : ConnectionLost(s)
    \/ \E s \in Conn : \E m \in SynthesizePayloads : HandleMessage(s, m)
    \/ \E s \in Conn : GenStart(s)
    \/ \E s \in Conn : JobAcquire(s)
    \/ \E s \in Conn : \E o \in EngineOutcomes : \E z \in AudioSizes : JobFinish(s, o, z)
    \/ \E s \in Conn : \E e \in BOOLEAN : StreamStep(s, e)
    \/ \E s \in Conn : FinalizeGenerator(s)
    \/ Signal

\* What the scheduling guarantees: the event loop resumes a task that can
\* run, the executor runs a submitted job, the engine run of a job ends, and
\* a thread waiting for the lock gets it when it is released again and again.
\* Nothing makes a client connect, send or disconnect, nor a signal arrive.
Fairness ==
    \A s \in Conn :
        /\ WF_vars(GenStart(s))
        /\ SF_vars(JobAcquire(s))
        /\ WF_vars(\E o \in EngineOutcomes : \E z \in AudioSizes : JobFinish(s, o, z))
        /\ WF_vars(\E e \in BOOLEAN : StreamStep(s, e))

FairSpec == Init /\ [][StreamNext]_vars /\ Fairness

----------------------------------------------------------------------------
(* What the properties speak about *)

\* The writes attempted for the current payload, in order: those that went
\* out, then (the transport once closed stays closed) those that raised.
Attempts(s) == sent[s] \o failed[s]

IsChunk(m) == m.type = "audio_chunk"

IsSynthesisMsg(m) == m.type \in {"synthesis_start", "audio_chunk", "synthesis_complete"}

\* The audio_chunk messages written for the current payload, in send order.
ChunksOf(s) == SelectSeq(sent[s], IsChunk)

RECURSIVE SumSizes(_)
SumSizes(chunks) ==
    IF chunks = <<>> THEN 0 ELSE Head(chunks).chunk_size + SumSizes(Tail(chunks))

IsSynthesize(s) ==
    /\ req[s].kind = "object"
    /\ "type" \in DOMAIN req[s].data
    /\ req[s].data.type = "synthesize"

\* The connection is open and served: its handler can still write.
Open(s) == alive[s] /\ proc = "running"

\* `msg` is the one message of the current payload, and the session is Active
\* after it; on a closed transport nothing went out and `msg` was the first
\* write tried.
OnlyReply(s, msg) ==
    /\ Len(Attempts(s)) >= 1
    /\ Attempts(s)[1] = msg
    /\ sent[s] \in {<<>>, <<msg>>}
    /\ Open(s) => /\ sent[s] = <<msg>>
                  /\ failed[s] = <<>>
                  /\ pc[s] = "recv"
                  /\ s \in active_connections

----------------------------------------------------------------------------
\* C1: whenever synthesis_complete has been written for a request, its
\* total_chunks is the number of audio_chunk messages written for the request
\* and its total_size is the sum of their chunk_size fields (zero chunks
\* included).
C1_TotalsMatchSent ==
    \A s \in Conn : \A i \in 1 .. Len(sent[s]) :
        sent[s][i].type = "synthesis_complete" =>
            /\ sent[s][i].total_chunks = Len(ChunksOf(s))
            /\ sent[s][i].total_size = SumSizes(ChunksOf(s))

\* A request completed with two chunks, the second a partial block.
C1_Witness ==
    \E s \in Conn :
        /\ Len(sent[s]) = 4
        /\ sent[s][4].type = "synthesis_complete"
        /\ sent[s][4].total_chunks = 2
        /\ sent[s][4].total_size = CHUNK_SIZE + 1

\* C2: the chunk_index values of the audio_chunk messages of a request are, in
\* send order, 1, 2, ..., N; no audio_chunk is empty, and after an empty block
\* from the generator the index still equals the number of chunks written.
C2_IndicesContiguous ==
    \A s \in Conn :
        LET c == ChunksOf(s) IN
        /\ \A i \in 1 .. Len(c) : c[i].chunk_index = i /\ c[i].chunk_size > 0
        /\ audio_chunk[s] = 0 => chunk_index[s] = Len(c)

\* A chunk was written, then the generator yielded an empty block, and the
\* request completed.
C2_Witness ==
    \E s \in Conn :
        /\ audio_chunk[s] = 0
        /\ chunk_index[s] >= 1
        /\ pc[s] = "recv"
        /\ sent[s][Len(sent[s])].type = "synthesis_complete"

\* C3: when the engine run of a validated request failed (it raised and left
\* the file empty, or the file is missing), no synthesis_complete is written
\* for the request, and once the request is handled an error message with its
\* request_id has been written.
C3_EngineFailureIsAnError ==
    \A s \in Conn :
        engine_result[s] \in {"raised", "missing"} =>
            /\ \A i \in 1 .. Len(sent[s]) : sent[s][i].type # "synthesis_complete"
            /\ pc[s] = "recv" =>
                   \E i \in 1 .. Len(sent[s]) :
                       /\ sent[s][i].type = "error"
                       /\ sent[s][i].request_id = CurrentRid(s)

BlankRequest(s) ==
    /\ IsSynthesize(s)
    /\ "text" \in DOMAIN req[s].data => req[s].data.text \in BlankTexts

\* C4: a synthesize message whose text is absent, empty or whitespace gets one
\* error message with the request's request_id and no synthesis message; no
\* temporary file, job or generator is created for it, and the session stays
\* Active as long as its transport is open.
C4_BlankTextOneError ==
    \A s \in Conn :
        BlankRequest(s) =>
            /\ OnlyReply(s, [type |-> "error", request_id |-> CurrentRid(s),
                             message |-> "text must not be empty"])
            /\ "request_id" \in DOMAIN req[s].data =>
                   Attempts(s)[1].request_id = req[s].data.request_id
            /\ \A i \in 1 .. Len(Attempts(s)) : ~IsSynthesisMsg(Attempts(s)[i])
            /\ job[s] = "none" /\ gen[s] = "none" /\ engine_result[s] = "none"
            /\ ~files[NamedTemporaryFile(s)].exists

\* A whitespace-only text was answered, the session is Active.
C4_Witness ==
    \E s \in Conn :
        /\ IsSynthesize(s)
        /\ "text" \in DOMAIN req[s].data
        /\ req[s].data.text = Text(1, 0, 1)
        /\ pc[s] = "recv"
        /\ Len(sent[s]) = 1
        /\ sent[s][1].type = "error"

LongRequest(s) ==
    /\ IsSynthesize(s)
    /\ "text" \in DOMAIN req[s].data
    /\ TextLen(req[s].data.text) > MAX_TEXT_LEN

\* C5, as stated: every synthesize message whose text is longer than 10,000
\* characters gets exactly one error message, which refers to the limit.
C5_Original ==
    \A s \in Conn :
        LongRequest(s) =>
            /\ Len(Attempts(s)) >= 1
            /\ Attempts(s)[1].type = "error"
            /\ "limit" \in DOMAIN Attempts(s)[1]

\* C5, amended: a synthesize message whose text is longer than 10,000
\* characters and not whitespace only gets exactly one error message, which
\* refers to the limit of 10,000, and no synthesis message; a whitespace-only
\* text over the limit gets the empty-text error instead; a non-blank text of
\* exactly 10,000 characters goes to synthesis (synthesis_start is its first
\* message).
C5_LengthLimit ==
    \A s \in Conn :
        (IsSynthesize(s) /\ "text" \in DOMAIN req[s].data) =>
            LET text == req[s].data.text IN
            /\ (TextLen(text) > MAX_TEXT_LEN /\ text.body > 0) =>
                   /\ OnlyReply(s, [type |-> "error", request_id |-> CurrentRid(s),
                                    message |-> "text length over limit",
                                    limit |-> MAX_TEXT_LEN])
                   /\ \A i \in 1 .. Len(Attempts(s)) : ~IsSynthesisMsg(Attempts(s)[i])
            /\ (TextLen(text) > MAX_TEXT_LEN /\ text.body = 0) =>
                   OnlyReply(s, [type |-> "error", request_id |-> CurrentRid(s),
                                 message |-> "text must not be empty"])
            /\ (TextLen(text) = MAX_TEXT_LEN /\ text.body > 0) =>
                   /\ Len(Attempts(s)) >= 1
                   /\ Attempts(s)[1] = [type |-> "synthesis_start",
                                        request_id |-> CurrentRid(s),
                                        text_length |-> MAX_TEXT_LEN]
                   /\ \A i \in 1 .. Len(sent[s]) : sent[s][i].type # "error"

\* One session was refused a text of 10,001 characters while another had a
\* text of exactly 10,000 characters accepted.
C5_Witness ==
    \E s, t \in Conn :
        /\ LongRequest(s) /\ req[s].data.text.body > 0
        /\ pc[s] = "recv" /\ Len(sent[s]) = 1 /\ sent[s][1].type = "error"
        /\ IsSynthesize(t) /\ "text" \in DOMAIN req[t].data
        /\ TextLen(req[t].data.text) = MAX_TEXT_LEN
        /\ Len(sent[t]) >= 1 /\ sent[t][1].type = "synthesis_start"

Undecodable(s) == req[s].kind \in {"malformed", "bad_utf8", "non_object"}

\* C6: every inbound payload that does not decode as a structured message
\* gets one error message whose request_id is "invalid", and the session
\* stays Active.
C6_UndecodableGetsInvalid ==
    \A s \in Conn :
        Undecodable(s) =>
            /\ Len(Attempts(s)) >= 1
            /\ Attempts(s)[1].type = "error"
            /\ Attempts(s)[1].request_id = "invalid"
            /\ Open(s) => pc[s] = "recv" /\ Len(sent[s]) = 1

UnknownTypeRequest(s) ==
    /\ req[s].kind = "object"
    /\ "type" \in DOMAIN req[s].data =>
           req[s].data.type \notin {"synthesize", "get_voices", "ping"}

\* C7: a message whose type is none of synthesize, get_voices, ping (a missing
\* type included) gets exactly one error message that names the type and
\* carries the request's request_id, and the session stays Active as long as
\* its transport is open.
C7_UnknownTypeOneError ==
    \A s \in Conn :
        UnknownTypeRequest(s) =>
            LET d == req[s].data IN
            /\ OnlyReply(s, [type |-> "error",
                             request_id |-> CurrentRid(s),
                             message |-> "unknown message type",
                             named |-> IF "type" \in DOMAIN d THEN d.type ELSE ""])
            /\ "request_id" \in DOMAIN d => Attempts(s)[1].request_id = d.request_id

\* A message of type "bogus" with request_id "X" was answered.
C7_Witness ==
    \E s \in Conn :
        /\ req[s].kind = "object"
        /\ req[s].data = [type |-> "bogus", request_id |-> "X"]
        /\ pc[s] = "recv"
        /\ Len(sent[s]) = 1
        /\ sent[s][1].named = "bogus"

PingX(s) ==
    /\ req[s].kind = "object"
    /\ req[s].data = [type |-> "ping", request_id |-> "X"]

\* C8: a ping with request_id "X" gets exactly one pong with request_id "X"
\* and no other message, whatever the other sessions do; the session stays
\* Active as long as its transport is open.
C8_PingOnePong ==
    \A s \in Conn : PingX(s) => OnlyReply(s, [type |-> "pong", request_id |-> "X"])

\* A ping was answered while the other session's job is inside the engine.
C8_Witness ==
    \E s, t \in Conn :
        /\ s # t
        /\ PingX(s) /\ pc[s] = "recv" /\ sent[s] = <<[type |-> "pong", request_id |-> "X"]>>
        /\ job[t] = "in_engine"

\* C10: once stop_server has been called, no connection is added to the
\* registry.
C10_NoAcceptAfterStop ==
    [][stop_calls > 0 => active_connections' \subseteq active_connections]_vars

InSynthesis(s) == pc[s] \in {"gen_start", "await_job", "stream"}

OwnChunks(s) ==
    \A i \in 1 .. Len(sent[s]) :
        IsChunk(sent[s][i]) =>
            /\ sent[s][i].audio_data.src = s
            /\ sent[s][i].audio_data.from = (sent[s][i].chunk_index - 1) * CHUNK_SIZE
            /\ i >= 2 /\ sent[s][i].chunk_index = i - 1
            /\ sent[s][1].type = "synthesis_start"

WholeSequence(s) ==
    LET n == Len(sent[s]) IN
    (n >= 1 /\ sent[s][n].type = "synthesis_complete") =>
        /\ n >= 2
        /\ sent[s][1].type = "synthesis_start"
        /\ \A i \in 2 .. n - 1 : IsChunk(sent[s][i])
        /\ sent[s][n].total_chunks = n - 2

StreamCompleted(s) ==
    /\ pc[s] = "recv"
    /\ Len(sent[s]) >= 2
    /\ sent[s][Len(sent[s])].type = "synthesis_complete"

\* C9: with two sessions synthesizing concurrently, every audio_chunk
\* written to a session's connection carries audio its own job wrote, at the
\* offset its index says; a sequence that ends with synthesis_complete is
\* synthesis_start, audio_chunk 1..N, synthesis_complete; and a session whose
\* request is in synthesis eventually has written its synthesis_complete,
\* unless its transport closes or the process exits first.
C9_IndependentStreams ==
    /\ [](\A s \in Conn : OwnChunks(s) /\ WholeSequence(s))
    /\ \A s \in Conn :
           InSynthesis(s) ~> (StreamCompleted(s) \/ (pc[s] = "closed" /\ ~Open(s)))

\* Both sessions are streaming at once, each with a chunk already written.
C9_Witness ==
    \A s \in Conn :
        /\ pc[s] = "stream"
        /\ Len(sent[s]) = 2
        /\ IsChunk(sent[s][2])

----------------------------------------------------------------------------
\* C11: once a shutdown signal has triggered stop, eventually every session
\* is closed (or was never accepted), start_server has returned and the
\* process has terminated.  On Linux and macOS nothing in the program ever
\* ends the wait in start_server, so a run that has taken the signal stays
\* as it is for ever.
C11_StopTerminates ==
    (stop_calls > 0) ~> (/\ proc = "exited"
                         /\ \A s \in Conn : pc[s] \in {"idle", "closed"})

----------------------------------------------------------------------------
\* C12: the shutdown path is idempotent: a signal that arrives after the
\* server has been stopped once changes nothing (no variable of the server,
\* of a session or of the engine moves, and the process does not fail), and
\* stop_server is never invoked a second time.
C12_StopIdempotent ==
    /\ [](stop_calls <= 1)
    /\ [][(stop_calls > 0 /\ Signal) => UNCHANGED vars]_vars

\* The server has been stopped once and still runs with a session
\* registered, so that a second signal can be delivered to it.
C12_Witness ==
    /\ stop_calls = 1
    /\ ~is_running
    /\ proc = "running"
    /\ active_connections # {}

----------------------------------------------------------------------------
Running(s) == pc[s] \notin {"idle", "closed"}

\* C13: the registry holds a session id exactly while that session's
\* connection handler is running: it is added at accept and removed on every
\* path into Closed (client disconnect, failed welcome, a write that fails
\* while a message is handled or a stream is sent, process exit), so no
\* closed session is registered.
C13_RegistryIsRunningHandlers ==
    \A s \in Conn : s \in active_connections <=> Running(s)

\* One session was closed by a write that failed in the middle of its
\* stream while the other one is still served.
C13_Witness ==
    \E s, t \in Conn :
        /\ pc[s] = "closed"
        /\ Len(failed[s]) = 3
        /\ IsChunk(failed[s][1])
        /\ s \notin active_connections
        /\ pc[t] = "recv"
        /\ t \in active_connections

----------------------------------------------------------------------------
InEngine == {s \in Conn : job[s] = "in_engine"}

\* C14: at most one synthesis job is inside the engine section at any time,
\* and it is the holder of the lock; a job that finds the engine busy waits:
\* its session has written synthesis_start and no error, and the job leaves
\* the waiting state only by entering the engine.
C14_OneJobInEngine ==
    /\ [](/\ Cardinality(InEngine) <= 1
          /\ \A s \in Conn : job[s] = "in_engine" <=> lock = s
          /\ \A s \in Conn :
                 (job[s] = "waiting" /\ pc[s] = "await_job") =>
                     /\ sent[s] = <<StartMsg(CurrentRid(s), CurrentText(s))>>
                     /\ failed[s] = <<>>)
    /\ [][\A s \in Conn :
              job[s] = "waiting" => job'[s] \in {"waiting", "in_engine"}]_vars

\* One session's job is inside the engine while the other session's job
\* waits for it.
C14_Witness ==
    \E s, t \in Conn :
        /\ job[s] = "in_engine"
        /\ job[t] = "waiting"
        /\ pc[t] = "await_job"

----------------------------------------------------------------------------
VoicesPayloads == {m \in Payloads : m.kind = "object" /\ TypeOf(m.data) = "get_voices"}

\* The steps that call get_voice_info for session s: its welcome and its
\* get_voices replies.
QueriesEngine(s) ==
    \/ SendWelcome(s)
    \/ \E m \in VoicesPayloads : HandleMessage(s, m)

\* C15: every access to the shared engine is mutually exclusive with the
\* synthesis jobs: the voice-information query made for a welcome or a
\* get_voices reply never runs while another session's job is inside the
\* engine, and neither does the engine stop made on shutdown.
C15_EngineAccessExcluded ==
    [][/\ \A s \in Conn : QueriesEngine(s) => InEngine \ {s} = {}
       /\ (StillRunning /\ Signal) => InEngine = {}]_vars

----------------------------------------------------------------------------
\* C16: admission to the engine is first come, first served: the job that
\* enters the engine is the one that has waited longest, so a job that began
\* to wait before another one enters before it.
C16_FifoAdmission ==
    [][\A s \in Conn :
           (job[s] = "waiting" /\ job'[s] = "in_engine") => s = Head(waiters)]_vars

----------------------------------------------------------------------------
\* C17: the temporary file of a synthesis call does not exist once the call
\* has ended (its generator has run its finally clause or was never
\* started), whichever way it ended: after a complete stream, an engine
\* failure, a failed write, or the cancellation of the session's task while
\* the job is still in its worker thread.
C17_NoFileAfterCall ==
    \A s \in Conn : gen[s] = "none" => ~files[NamedTemporaryFile(s)].exists

----------------------------------------------------------------------------
\* The write of synthesis_start or of an audio_chunk raised for the current
\* request of session s.
StreamFailed(s) ==
    /\ failed[s] # <<>>
    /\ failed[s][1].type \in {"synthesis_start", "audio_chunk"}

IsError(m) == m.type = "error"

ErrorsOf(s) == SelectSeq(Attempts(s), IsError)

\* C18: when the write of synthesis_start or of an audio_chunk fails, at most
\* one error message is attempted for the request and it carries the
\* request's request_id; no audio_chunk is attempted after the failed write
\* and no synthesis_complete is attempted at all.
C18_OneErrorOnStreamFailure ==
    \A s \in Conn :
        StreamFailed(s) =>
            /\ Len(ErrorsOf(s)) <= 1
            /\ \A i \in 1 .. Len(ErrorsOf(s)) : ErrorsOf(s)[i].request_id = CurrentRid(s)
            /\ \A i \in 2 .. Len(failed[s]) : ~IsChunk(failed[s][i])
            /\ \A i \in 1 .. Len(Attempts(s)) : Attempts(s)[i].type # "synthesis_complete"

----------------------------------------------------------------------------
\* The messages written for the current payload of session s are a whole
\* response: nothing yet, or a sequence that ends with a reply, an error or
\* synthesis_complete.
ResponseDone(s) ==
    \/ sent[s] = <<>>
    \/ sent[s][Len(sent[s])].type \in
           {"welcome", "pong", "voice_info", "error", "synthesis_complete"}

\* The step is the handler of session s taking its next inbound frame (the
\* frame is then the session's current payload).
Receives(s) == req'[s] \in Payloads /\ HandleMessage(s, req'[s])

\* A frame session t may send at any time and that needs no synthesis.
PingOrVoices == {m \in Payloads : m.kind = "object" /\ TypeOf(m.data) \in {"ping", "get_voices"}}

\* C19: within a session the handler of the next inbound message starts only
\* when every outbound message of the previous one has been written (start,
\* all chunks and complete for a synthesis, the single reply otherwise);
\* and while a session is in synthesis or between chunk writes, a ping or a
\* get_voices of another session that is being served can be handled.
C19_SequentialPerSession ==
    /\ [][\A s \in Conn : Receives(s) => (pc[s] = "recv" /\ ResponseDone(s))]_vars
    /\ [](\A s, t \in Conn :
             (s # t /\ InSynthesis(s) /\ pc[t] = "recv" /\ proc = "running") =>
                 \A m \in PingOrVoices : ENABLED HandleMessage(t, m))

\* One session waits for its job, which is inside the engine, and the other
\* session's get_voices has been answered.
C19_Witness ==
    \E s, t \in Conn :
        /\ s # t
        /\ pc[s] = "await_job" /\ job[s] = "in_engine"
        /\ pc[t] = "recv"
        /\ sent[t] = <<VoiceInfoMsg("X")>>

----------------------------------------------------------------------------
\* The step ends the handler of session s while the server goes on: a write
\* on its dropped connection raised, or its receive loop found it closed.
TearsDown(s) == pc[s] # "closed" /\ pc'[s] = "closed" /\ proc' = "running"

\* Nothing that belongs to session t moves in the step.
Untouched(t) ==
    /\ (t \in active_connections') <=> (t \in active_connections)
    /\ pc'[t] = pc[t] /\ alive'[t] = alive[t] /\ req'[t] = req[t]
    /\ sent'[t] = sent[t] /\ failed'[t] = failed[t]
    /\ chunk_index'[t] = chunk_index[t] /\ total_size'[t] = total_size[t]
    /\ audio_chunk'[t] = audio_chunk[t] /\ offset'[t] = offset[t]
    /\ job'[t] = job[t] /\ gen'[t] = gen[t] /\ engine_result'[t] = engine_result[t]
    /\ files'[NamedTemporaryFile(t)] = files[NamedTemporaryFile(t)]

\* C20: a transport failure on one session tears that session down (it is
\* Closed and out of the registry, and nothing more is written to it) and
\* leaves every other session as it was: registry entry, position, chunk
\* index, totals, job and file; the later cleanup of the failed session's
\* generator does not touch them either, and the server still accepts a
\* connection on a free slot.
C20_FailureIsLocal ==
    /\ [][\A s \in Conn :
              /\ TearsDown(s) => /\ s \notin active_connections'
                                 /\ \A t \in Conn \ {s} : Untouched(t)
              /\ FinalizeGenerator(s) => \A t \in Conn \ {s} : Untouched(t)
              /\ (pc[s] = "closed" /\ proc' = "running") =>
                     (pc'[s] = "closed" /\ sent'[s] = sent[s])]_vars
    /\ [](\A s, t \in Conn :
             (pc[s] = "closed" /\ pc[t] = "idle" /\ proc = "running") =>
                 ENABLED Accept(t))

\* One session was torn down by a failed chunk write while the other one,
\* still registered, has gone on to write both chunks of its stream.
C20_Witness ==
    \E s, t \in Conn :
        /\ pc[s] = "closed"
        /\ failed[s] # <<>> /\ IsChunk(failed[s][1])
        /\ t \in active_connections
        /\ pc[t] = "stream"
        /\ Len(ChunksOf(t)) = 2

====
